---- MODULE Spec2Model ----
(***************************************************************************)
(* Model of sendgrid/sendgrid.py: SendGridClient, its field-map builder    *)
(* (_build_body), the persistent and non-persistent request paths, the     *)
(* dispatch between them (_make_request) and the two error-reporting       *)
(* wrappers (_legacy_send, _raising_send).                                 *)
(*                                                                         *)
(* The HTTP libraries (http.client, urllib.request) are the environment:   *)
(* each call into them returns or fails with one of the exception classes  *)
(* the client's except clauses distinguish.                                *)
(***************************************************************************)
EXTENDS Integers, Sequences, FiniteSets, TLC

VARIABLES
    username, password, useragent, host, port, endpoint, mail_url,
    _raise_errors, proxies, _server, _max_retry,   \* fields of SendGridClient
    pc,          \* position of the running send ("idle" between calls)
    retry,       \* number of completed iterations of the range(_max_retry) loop
    message,     \* argument of the running / last send
    values,      \* field map returned by the last _build_body call
    data,        \* the encoded request body built from it
    conns,       \* state of every HTTPSConnection opened so far, by handle
    log,         \* transport operations issued by the running / last send
    outcome,     \* how the last send ended
    resolved,    \* number of outcomes produced by the running / last send
    sends,       \* number of send calls started
    healthy,     \* every transport exchange so far completed
    twin         \* a second client, constructed with the other raise_errors

vars == <<username, password, useragent, host, port, endpoint, mail_url,
          _raise_errors, proxies, _server, _max_retry,
          pc, retry, message, values, data, conns, log, outcome, resolved,
          sends, healthy, twin>>

config == <<username, password, useragent, host, port, endpoint, mail_url,
            _raise_errors, proxies, _max_retry>>

(***************************************************************************)
(* Bounds                                                                  *)
(***************************************************************************)
MaxSends == 2

(***************************************************************************)
(* Python values.  A value is a kind and its items: the characters of a    *)
(* string (kept as one chunk), the elements of a list, the keys of a dict. *)
(***************************************************************************)
None == [kind |-> "none", val |-> <<>>]

Str(s) == [kind |-> "str", val |-> IF s = "" THEN <<>> ELSE <<s>>]

List(items) == [kind |-> "list", val |-> items]

Dict(keys) == [kind |-> "dict", val |-> keys]

\* bool(v): None, '', [] and {} are false
Truthy(v) == v.kind # "none" /\ Len(v.val) > 0

\* str(v) of a scalar placed in a list
ItemOf(v) == IF v.kind = "none" THEN "None"
             ELSE IF v.val = <<>> THEN "" ELSE v.val[1]

\* 'a' + b on strings
Concat(a, b) == [kind |-> "str", val |-> a.val \o b.val]

(***************************************************************************)
(* Message (read-only input) and _build_body                               *)
(***************************************************************************)
FileNames == <<"a.txt">>

ContentIds == <<"cid">>

Range(seq) == {seq[i] : i \in 1..Len(seq)}

\* mappings name -> content over any subset of the names
Attachments(names) ==
    UNION {[S -> {Str(""), Str("data")}] : S \in SUBSET Range(names)}

FieldKeys == <<"to[]", "toname[]", "cc[]", "bcc[]", "from", "fromname",
               "subject", "text", "html", "replyto", "headers", "date",
               "x-smtpapi">>

\* A field map is the dict in insertion order: a sequence of <<key, value>>.
Keys(v) == {v[i][1] : i \in 1..Len(v)}

FieldOf(m, k) ==
    CASE k = "to[]"      -> IF Truthy(m.to) THEN m.to
                            ELSE List(<<ItemOf(m.from_email)>>)
      [] k = "toname[]"  -> m.to_name
      [] k = "cc[]"      -> m.cc
      [] k = "bcc[]"     -> m.bcc
      [] k = "from"      -> m.from_email
      [] k = "fromname"  -> m.from_name
      [] k = "subject"   -> m.subject
      [] k = "text"      -> m.text
      [] k = "html"      -> m.html
      [] k = "replyto"   -> m.reply_to
      [] k = "headers"   -> m.headers
      [] k = "date"      -> m.date
      [] k = "x-smtpapi" -> m.smtpapi

\* the dict literal of _build_body
Literal(m) ==
    [i \in 1..Len(FieldKeys) |-> <<FieldKeys[i], FieldOf(m, FieldKeys[i])>>]

\* values['api_user'] = ...; values['api_key'] = ... for username + password
WithCredentials(v) ==
    IF username # None
    THEN v \o <<<<"api_user", username>>, <<"api_key", password>>>>
    ELSE v

TruthyItem(item) == Truthy(item[2])

\* mutant of DropFalsy: the deletion loop is missing
DropFalsy_KeepsAll(v) == v

\* for k in list(values.keys()): if not values[k]: del values[k]
DropFalsy(v) == SelectSeq(v, TruthyItem)

FileKey(name) == "files[" \o name \o "]"

ContentKey(id) == "content[" \o id \o "]"

\* the names of a mapping whose content is truthy, in iteration order
RECURSIVE Kept(_, _, _)
Kept(names, mapping, i) ==
    IF i > Len(names) THEN <<>>
    ELSE (IF names[i] \in DOMAIN mapping /\ Truthy(mapping[names[i]])
          THEN <<names[i]>> ELSE <<>>) \o Kept(names, mapping, i + 1)

\* for filename in message.files: if message.files[filename]: values[...] = ...
WithFiles(v, files) ==
    LET kept == Kept(FileNames, files, 1)
    IN  v \o [i \in 1..Len(kept) |-> <<FileKey(kept[i]), files[kept[i]]>>]

\* for content in message.content: if message.content[content]: values[...] = ...
WithContent(v, content) ==
    LET kept == Kept(ContentIds, content, 1)
    IN  v \o [i \in 1..Len(kept) |->
                 <<ContentKey(kept[i]), content[kept[i]]>>]

_build_body(m) ==
    WithContent(WithFiles(DropFalsy(WithCredentials(Literal(m))), m.files),
                m.content)

\* the key=value pairs of the fields from the i-th on: one per element of a
\* sequence value
RECURSIVE Pairs(_, _)
Pairs(v, i) ==
    IF i > Len(v) THEN <<>>
    ELSE [j \in 1..Len(v[i][2].val) |-> <<v[i][1], v[i][2].val[j]>>]
         \o Pairs(v, i + 1)

\* urlencode(values, True).encode('utf-8')
urlencode(v) == [kind |-> "bytes", val |-> Pairs(v, 1)]

(***************************************************************************)
(* Messages                                                                *)
(***************************************************************************)
\* every combination of an empty and a non-empty value per field
AllMessages ==
    [to         : {List(<<>>), List(<<"to@x">>)},
     to_name    : {List(<<>>), List(<<"To">>)},
     cc         : {List(<<>>), List(<<"">>), List(<<"cc@x">>)},
     bcc        : {List(<<>>), List(<<"bcc@x">>)},
     from_email : {Str(""), Str("from@x")},
     from_name  : {Str(""), Str("From")},
     subject    : {Str(""), Str("subj")},
     text       : {Str(""), Str("text")},
     html       : {Str(""), Str("<p>")},
     reply_to   : {None, Str("reply@x")},
     headers    : {Dict(<<>>), Dict(<<"X-H">>)},
     date       : {None, Str("date")},
     smtpapi    : {Str(""), Str("{}")},
     files      : Attachments(FileNames),
     content    : Attachments(ContentIds)]

EmptyMessage ==
    [to |-> List(<<>>), to_name |-> List(<<>>), cc |-> List(<<>>),
     bcc |-> List(<<>>), from_email |-> Str(""), from_name |-> Str(""),
     subject |-> Str(""), text |-> Str(""), html |-> Str(""),
     reply_to |-> None, headers |-> Dict(<<>>), date |-> None,
     smtpapi |-> Str("{}"),
     files |-> [f \in {"a.txt"} |-> Str("")],
     content |-> [c \in {} |-> None]]

FullMessage ==
    [to |-> List(<<"to@x">>), to_name |-> List(<<"To">>),
     cc |-> List(<<"cc@x">>), bcc |-> List(<<"bcc@x">>),
     from_email |-> Str("from@x"), from_name |-> Str("From"),
     subject |-> Str("subj"), text |-> Str("text"), html |-> Str("<p>"),
     reply_to |-> Str("reply@x"), headers |-> Dict(<<"X-H">>),
     date |-> Str("date"), smtpapi |-> Str("{}"),
     files |-> [f \in {"a.txt"} |-> Str("data")],
     content |-> [c \in {"cid"} |-> Str("data")]]

\* messages sent in the transport specification
Messages == {EmptyMessage, FullMessage}

(***************************************************************************)
(* Environment: what the HTTP libraries answer                             *)
(***************************************************************************)
Statuses == {200, 304, 400, 499, 500, 599, 600}

Bodies == {"body1", "body2"}

\* request() returns, raises socket.timeout, or raises anything else
RequestResults == {"ok", "timeout", "error"}

Raw(k, c, b) == [kind |-> k, code |-> c, body |-> b]

\* getresponse() + read(): a response, BadStatusLine, socket.timeout, other
ResponseResults ==
    {Raw("ok", s, b) : s \in Statuses, b \in Bodies}
    \cup {Raw("BadStatusLine", 0, ""), Raw("timeout", 0, ""),
          Raw("error", 0, "")}

\* urlopen() + read(): 2xx is returned, any other status raises HTTPError
UrlopenResults ==
    {Raw(IF s \in 200..299 THEN "ok" ELSE "HTTPError", s, b) :
        s \in Statuses, b \in Bodies}
    \cup {Raw("timeout", 0, ""), Raw("error", 0, "")}

(***************************************************************************)
(* Error reporting                                                         *)
(***************************************************************************)
Outcome(k, c, b) == [kind |-> k, code |-> c, body |-> b]

NoOutcome == Outcome("none", 0, "")

\* an exception no except clause of send catches
Propagated == Outcome("propagated", 0, "")

\* mutant of _legacy_send: the HTTPError handler returns the code without
\* reading the error body
_legacy_send_NoErrorBody(raw) ==
    CASE raw.kind = "ok"        -> Outcome("returned", raw.code, raw.body)
      [] raw.kind = "HTTPError" -> Outcome("returned", raw.code, "")
      [] raw.kind = "timeout"   -> Outcome("returned", 408, "timeout object")
      [] OTHER                  -> Propagated

\* mutant of _legacy_send: there is no except timeout clause
_legacy_send_NoTimeout(raw) ==
    CASE raw.kind = "ok"        -> Outcome("returned", raw.code, raw.body)
      [] raw.kind = "HTTPError" -> Outcome("returned", raw.code, raw.body)
      [] OTHER                  -> Propagated

_legacy_send(raw) ==
    CASE raw.kind = "ok"        -> Outcome("returned", raw.code, raw.body)
      [] raw.kind = "HTTPError" -> Outcome("returned", raw.code, raw.body)
      [] raw.kind = "timeout"   -> Outcome("returned", 408, "timeout object")
      [] OTHER                  -> Propagated

_raising_send(raw) ==
    CASE raw.kind = "ok"        -> Outcome("returned", raw.code, raw.body)
      [] raw.kind = "HTTPError" ->
            IF 400 <= raw.code /\ raw.code < 500
            THEN Outcome("SendGridClientError", raw.code, raw.body)
            ELSE IF 500 <= raw.code /\ raw.code < 600
            THEN Outcome("SendGridServerError", raw.code, raw.body)
            ELSE Outcome("AssertionError", 0, "")
      [] raw.kind = "timeout"   ->
            Outcome("SendGridClientError", 408, "Request timeout")
      [] OTHER                  -> Propagated

\* send: the wrapper chosen by _raise_errors, applied to what _make_request
\* returned or raised
Classify(raw) == IF _raise_errors THEN _raising_send(raw) ELSE _legacy_send(raw)

(***************************************************************************)
(* Requests                                                                *)
(***************************************************************************)
NoHandle == 0

\* the Authorization header of a request (None: no such header)
Authorization ==
    IF username = None THEN Concat(Str("Bearer "), password) ELSE None

NoData == [kind |-> "bytes", val |-> <<>>]

\* one transport operation: what was called, on which handle, how it ended
\* (result), what it carried (auth, data) and what it answered (code, body)
Entry(o, h, r, a, d, c, b) ==
    [op |-> o, handle |-> h, result |-> r, auth |-> a, data |-> d,
     code |-> c, body |-> b]

Op(o, h) == Entry(o, h, "ok", None, NoData, 0, "")

\* __init__: (None, apikey) without a password, else (username, password)
Credentials ==
    {<<None, Str("apikey")>>, <<Str(""), Str("secret")>>,
     <<Str("user"), Str("")>>, <<Str("user"), Str("secret")>>}

(***************************************************************************)
(* A second client, constructed like the first but with the other          *)
(* raise_errors, given the same messages and the same transport answers    *)
(***************************************************************************)
TwinOp(o, h, r) == [op |-> o, handle |-> h, result |-> r]

\* the wrapper of send chosen by the other value of _raise_errors
TwinClassify(raw) ==
    IF _raise_errors THEN _legacy_send(raw) ELSE _raising_send(raw)

\* __init__: no handle, nothing sent
TwinInit ==
    [pc |-> "idle", retry |-> 0, server |-> NoHandle, conns |-> <<>>,
     ops |-> <<>>, outcome |-> NoOutcome]

\* send -> _make_request: the persistent path unless proxies are set
Twin_send(t) ==
    [t EXCEPT !.pc = IF ~Truthy(proxies) THEN "persistent"
                     ELSE "nonpersistent",
              !.retry = 0,
              !.ops = <<>>,
              !.outcome = NoOutcome]

\* open if there is no handle, request(): r is how request() ended
Twin_request(t, r) ==
    LET opening == t.server = NoHandle
        h       == IF opening THEN Len(t.conns) + 1 ELSE t.server
        conns1  == IF opening THEN Append(t.conns, "idle") ELSE t.conns
        opened  == IF opening THEN <<TwinOp("open", h, "ok")>> ELSE <<>>
    IN  [t EXCEPT !.server = h,
                  !.conns = [conns1 EXCEPT ![h] = IF r = "ok" THEN "pending"
                                                   ELSE "broken"],
                  !.ops = t.ops \o opened \o <<TwinOp("request", h, r)>>,
                  !.pc = CASE r = "ok"      -> "response"
                           [] r = "timeout" -> "nonpersistent"
                           [] OTHER         -> "idle",
                  !.outcome = IF r \in {"ok", "timeout"} THEN t.outcome
                              ELSE TwinClassify(Raw("error", 0, ""))]

\* getresponse() + read(), and the BadStatusLine handler
Twin_getresponse(t, raw) ==
    LET answered == Append(t.ops, TwinOp("getresponse", t.server, raw.kind))
    IN  CASE raw.kind = "ok" ->
               [t EXCEPT !.conns[t.server] = "idle",
                         !.ops = answered,
                         !.outcome = TwinClassify(raw),
                         !.pc = "idle"]
          [] raw.kind = "BadStatusLine" ->
               [t EXCEPT !.conns[t.server] = "closed",
                         !.ops = Append(answered,
                                        TwinOp("close", t.server, "ok")),
                         !.server = NoHandle,
                         !.retry = t.retry + 1,
                         !.pc = "persistent"]
          [] raw.kind = "timeout" ->
               [t EXCEPT !.ops = answered, !.pc = "nonpersistent"]
          [] OTHER ->
               [t EXCEPT !.ops = answered,
                         !.outcome = TwinClassify(raw),
                         !.pc = "idle"]

\* raise timeout after the loop, ignored by _make_request
Twin_exhausted(t) ==
    [t EXCEPT !.ops = Append(t.ops, TwinOp("raise timeout", NoHandle, "ok")),
              !.pc = "nonpersistent"]

\* _make_nonpersistent_request and the wrapper's handling of its result
Twin_urlopen(t, raw) ==
    [t EXCEPT !.ops = Append(t.ops, TwinOp("urlopen", NoHandle, raw.kind)),
              !.outcome = TwinClassify(raw),
              !.pc = "idle"]

\* the next step of the second client's send, given the transport's answer
Twin_step(t, raw) ==
    CASE t.pc = "persistent" /\ t.retry < _max_retry ->
             Twin_request(t, raw.kind)
      [] t.pc = "persistent"    -> Twin_exhausted(t)
      [] t.pc = "response"      -> Twin_getresponse(t, raw)
      [] t.pc = "nonpersistent" -> Twin_urlopen(t, raw)
      [] OTHER                  -> t

Init ==
    /\ \E c \in Credentials : username = c[1] /\ password = c[2]
    /\ useragent = "sendgrid/version;python"
    /\ host = "https://api.sendgrid.com"
    /\ port = "443"
    /\ endpoint = "/api/mail.send.json"
    /\ mail_url = host \o ":" \o port \o endpoint
    /\ _raise_errors \in BOOLEAN
    /\ proxies \in {None, Dict(<<>>), Dict(<<"https">>)}
    /\ _server = NoHandle
    /\ _max_retry = 3
    /\ pc = "idle"
    /\ retry = 0
    /\ message = EmptyMessage
    /\ values = <<>>
    /\ data = NoData
    /\ conns = <<>>
    /\ log = <<>>
    /\ outcome = NoOutcome
    /\ resolved = 0
    /\ sends = 0
    /\ healthy = TRUE
    /\ twin = TwinInit

\* mutant of send: _make_request does not look at proxies
send_IgnoresProxies(m) ==
    /\ pc = "idle"
    /\ sends < MaxSends
    /\ sends' = sends + 1
    /\ message' = m
    /\ log' = <<>>
    /\ outcome' = NoOutcome
    /\ resolved' = 0
    /\ retry' = 0
    /\ pc' = "persistent"
    /\ values' = _build_body(m)
    /\ data' = urlencode(values')
    /\ UNCHANGED <<config, _server, conns, healthy>>
    /\ twin' = Twin_send(twin)

\* mutant of send: _raising_send calls _make_nonpersistent_request, only
\* _legacy_send goes through _make_request
send_RaisingSkipsPersistent(m) ==
    /\ pc = "idle"
    /\ sends < MaxSends
    /\ sends' = sends + 1
    /\ message' = m
    /\ log' = <<>>
    /\ outcome' = NoOutcome
    /\ resolved' = 0
    /\ retry' = 0
    /\ IF ~Truthy(proxies) /\ ~_raise_errors
       THEN /\ pc' = "persistent"
            /\ values' = _build_body(m)
            /\ data' = urlencode(values')
       ELSE /\ pc' = "nonpersistent"
            /\ values' = <<>>
            /\ data' = NoData
    /\ UNCHANGED <<config, _server, conns, healthy>>
    /\ twin' = Twin_send(twin)

\* send -> _legacy_send / _raising_send -> _make_request, up to the first
\* transport call; on the persistent path the body is built before the loop
send(m) ==
    /\ pc = "idle"
    /\ sends < MaxSends
    /\ sends' = sends + 1
    /\ message' = m
    /\ log' = <<>>
    /\ outcome' = NoOutcome
    /\ resolved' = 0
    /\ retry' = 0
    /\ IF ~Truthy(proxies)
       THEN /\ pc' = "persistent"
            /\ values' = _build_body(m)
            /\ data' = urlencode(values')
       ELSE /\ pc' = "nonpersistent"
            /\ values' = <<>>
            /\ data' = NoData
    /\ UNCHANGED <<config, _server, conns, healthy>>
    /\ twin' = Twin_send(twin)

\* mutant of PersistentRequest: the loop runs once more than _max_retry
PersistentRequest_OneMore ==
    /\ pc = "persistent"
    /\ retry <= _max_retry
    /\ \E r \in RequestResults :
        LET opening == _server = NoHandle
            h       == IF opening THEN Len(conns) + 1 ELSE _server
            conns1  == IF opening THEN Append(conns, "idle") ELSE conns
            opened  == IF opening THEN <<Op("open", h)>> ELSE <<>>
            req     == Entry("request", h, r, Authorization, data, 0, "")
        IN  /\ _server' = h
            /\ conns' = [conns1 EXCEPT ![h] = IF r = "ok" THEN "pending"
                                                ELSE "broken"]
            /\ log' = log \o opened \o <<req>>
            /\ healthy' = (healthy /\ r = "ok")
            /\ twin' = Twin_step(twin, Raw(r, 0, ""))
            /\ CASE r = "ok" ->
                      pc' = "response" /\ UNCHANGED <<outcome, resolved>>
                 [] r = "timeout" ->
                      pc' = "nonpersistent" /\ UNCHANGED <<outcome, resolved>>
                 [] OTHER ->
                      /\ pc' = "idle"
                      /\ outcome' = Classify(Raw("error", 0, ""))
                      /\ resolved' = resolved + 1
    /\ UNCHANGED <<config, retry, message, values, data, sends>>

\* mutant of PersistentRequest: a connection is opened for every request,
\* whether a handle is stored or not
PersistentRequest_AlwaysOpens ==
    /\ pc = "persistent"
    /\ retry < _max_retry
    /\ \E r \in RequestResults :
        LET h       == Len(conns) + 1
            conns1  == Append(conns, "idle")
            req     == Entry("request", h, r, Authorization, data, 0, "")
        IN  /\ _server' = h
            /\ conns' = [conns1 EXCEPT ![h] = IF r = "ok" THEN "pending"
                                                ELSE "broken"]
            /\ log' = log \o <<Op("open", h), req>>
            /\ healthy' = (healthy /\ r = "ok")
            /\ twin' = Twin_step(twin, Raw(r, 0, ""))
            /\ CASE r = "ok" ->
                      pc' = "response" /\ UNCHANGED <<outcome, resolved>>
                 [] r = "timeout" ->
                      pc' = "nonpersistent" /\ UNCHANGED <<outcome, resolved>>
                 [] OTHER ->
                      /\ pc' = "idle"
                      /\ outcome' = Classify(Raw("error", 0, ""))
                      /\ resolved' = resolved + 1
    /\ UNCHANGED <<config, retry, message, values, data, sends>>

\* one iteration of the retry loop up to request(): open if there is no
\* handle, issue the request
PersistentRequest ==
    /\ pc = "persistent"
    /\ retry < _max_retry
    /\ \E r \in RequestResults :
        LET opening == _server = NoHandle
            h       == IF opening THEN Len(conns) + 1 ELSE _server
            conns1  == IF opening THEN Append(conns, "idle") ELSE conns
            opened  == IF opening THEN <<Op("open", h)>> ELSE <<>>
            req     == Entry("request", h, r, Authorization, data, 0, "")
        IN  /\ _server' = h
            /\ conns' = [conns1 EXCEPT ![h] = IF r = "ok" THEN "pending"
                                                ELSE "broken"]
            /\ log' = log \o opened \o <<req>>
            /\ healthy' = (healthy /\ r = "ok")
            /\ twin' = Twin_step(twin, Raw(r, 0, ""))
            /\ CASE r = "ok" ->
                      pc' = "response" /\ UNCHANGED <<outcome, resolved>>
                 [] r = "timeout" ->   \* caught by _make_request
                      pc' = "nonpersistent" /\ UNCHANGED <<outcome, resolved>>
                 [] OTHER ->
                      /\ pc' = "idle"
                      /\ outcome' = Classify(Raw("error", 0, ""))
                      /\ resolved' = resolved + 1
    /\ UNCHANGED <<config, retry, message, values, data, sends>>

\* the log entry of a getresponse() / read() on the current handle
Response(raw) ==
    Entry("getresponse", _server, raw.kind, None, NoData, raw.code, raw.body)

\* mutant of ResponseFailure: the BadStatusLine handler retries on the same
\* handle, without close() and without resetting _server
ResponseFailure_KeepsHandle(raw) ==
    /\ healthy' = FALSE
    /\ twin' = Twin_step(twin, raw)
    /\ CASE raw.kind = "BadStatusLine" ->
           /\ log' = Append(log, Response(raw))
           /\ retry' = retry + 1
           /\ pc' = "persistent"
           /\ UNCHANGED <<_server, conns, outcome, resolved>>
      [] raw.kind = "timeout" ->
           /\ log' = Append(log, Response(raw))
           /\ pc' = "nonpersistent"
           /\ UNCHANGED <<_server, conns, retry, outcome, resolved>>
      [] OTHER ->
           /\ log' = Append(log, Response(raw))
           /\ outcome' = Classify(raw)
           /\ resolved' = resolved + 1
           /\ pc' = "idle"
           /\ UNCHANGED <<_server, conns, retry>>

\* mutant of ResponseFailure: the timeout of getresponse() is not caught by
\* _make_request and reaches the wrapper of send
ResponseFailure_TimeoutSurfaces(raw) ==
    /\ healthy' = FALSE
    /\ twin' = Twin_step(twin, raw)
    /\ CASE raw.kind = "BadStatusLine" ->
           /\ conns' = [conns EXCEPT ![_server] = "closed"]
           /\ log' = log \o <<Response(raw), Op("close", _server)>>
           /\ _server' = NoHandle
           /\ retry' = retry + 1
           /\ pc' = "persistent"
           /\ UNCHANGED <<outcome, resolved>>
      [] OTHER ->
           /\ log' = Append(log, Response(raw))
           /\ outcome' = Classify(raw)
           /\ resolved' = resolved + 1
           /\ pc' = "idle"
           /\ UNCHANGED <<_server, conns, retry>>

\* mutant of ResponseFailure: _make_request catches every exception of
\* _make_persistent_request, not the timeout alone
ResponseFailure_ErrorFallsBack(raw) ==
    /\ healthy' = FALSE
    /\ twin' = Twin_step(twin, raw)
    /\ CASE raw.kind = "BadStatusLine" ->
           /\ conns' = [conns EXCEPT ![_server] = "closed"]
           /\ log' = log \o <<Response(raw), Op("close", _server)>>
           /\ _server' = NoHandle
           /\ retry' = retry + 1
           /\ pc' = "persistent"
           /\ UNCHANGED <<outcome, resolved>>
      [] OTHER ->
           /\ log' = Append(log, Response(raw))
           /\ pc' = "nonpersistent"
           /\ UNCHANGED <<_server, conns, retry, outcome, resolved>>

\* what PersistentResponse does on BadStatusLine, a timeout or another
\* failure of getresponse() / read()
ResponseFailure(raw) ==
    /\ healthy' = FALSE
    /\ twin' = Twin_step(twin, raw)
    /\ CASE raw.kind = "BadStatusLine" ->
           /\ conns' = [conns EXCEPT ![_server] = "closed"]
           /\ log' = log \o <<Response(raw), Op("close", _server)>>
           /\ _server' = NoHandle
           /\ retry' = retry + 1
           /\ pc' = "persistent"
           /\ UNCHANGED <<outcome, resolved>>
      [] raw.kind = "timeout" ->   \* caught by _make_request
           /\ log' = Append(log, Response(raw))
           /\ pc' = "nonpersistent"
           /\ UNCHANGED <<_server, conns, retry, outcome, resolved>>
      [] OTHER ->
           /\ log' = Append(log, Response(raw))
           /\ outcome' = Classify(raw)
           /\ resolved' = resolved + 1
           /\ pc' = "idle"
           /\ UNCHANGED <<_server, conns, retry>>

\* mutant of PersistentResponse: the return is missing, the loop goes on
\* after a response
PersistentResponse_NoReturn ==
    /\ pc = "response"
    /\ \E raw \in ResponseResults :
        IF raw.kind = "ok"
        THEN /\ conns' = [conns EXCEPT ![_server] = "idle"]
             /\ log' = Append(log, Response(raw))
             /\ retry' = retry + 1
             /\ pc' = "persistent"
             /\ UNCHANGED <<_server, outcome, resolved, healthy>>
             /\ twin' = Twin_step(twin, raw)
        ELSE ResponseFailure(raw)
    /\ UNCHANGED <<config, message, values, data, sends>>

\* mutant of PersistentResponse: while True instead of range(_max_retry)
PersistentResponse_Unbounded ==
    /\ pc = "response"
    /\ \E raw \in ResponseResults :
        IF raw.kind = "ok"
        THEN /\ conns' = [conns EXCEPT ![_server] = "idle"]
             /\ log' = Append(log, Response(raw))
             /\ outcome' = Classify(raw)
             /\ resolved' = resolved + 1
             /\ pc' = "idle"
             /\ UNCHANGED <<_server, retry, healthy>>
             /\ twin' = Twin_step(twin, raw)
        ELSE IF raw.kind = "BadStatusLine"
        THEN /\ conns' = [conns EXCEPT ![_server] = "closed"]
             /\ log' = log \o <<Response(raw), Op("close", _server)>>
             /\ _server' = NoHandle
             /\ pc' = "persistent"
             /\ healthy' = FALSE
             /\ twin' = Twin_step(twin, raw)
             /\ UNCHANGED <<retry, outcome, resolved>>
        ELSE ResponseFailure(raw)
    /\ UNCHANGED <<config, message, values, data, sends>>

\* getresponse() and read() on the handle, and the BadStatusLine handler
PersistentResponse ==
    /\ pc = "response"
    /\ \E raw \in ResponseResults :
        IF raw.kind = "ok"
        THEN /\ conns' = [conns EXCEPT ![_server] = "idle"]
             /\ log' = Append(log, Response(raw))
             /\ outcome' = Classify(raw)
             /\ resolved' = resolved + 1
             /\ pc' = "idle"
             /\ UNCHANGED <<_server, retry, healthy>>
             /\ twin' = Twin_step(twin, raw)
        ELSE ResponseFailure(raw)
    /\ UNCHANGED <<config, message, values, data, sends>>

\* mutant of PersistentExhausted: _make_request does not catch the timeout
PersistentExhausted_NoFallback ==
    /\ pc = "persistent"
    /\ retry >= _max_retry
    /\ pc' = "idle"
    /\ log' = Append(log, Op("raise timeout", NoHandle))
    /\ outcome' = Classify(Raw("timeout", 0, ""))
    /\ resolved' = resolved + 1
    /\ UNCHANGED <<config, _server, retry, message, values, data, conns,
                   sends, healthy>>
    /\ twin' = Twin_step(twin, Raw("ok", 0, ""))

\* mutant of PersistentExhausted: an exhausted loop sets self._max_retry to
\* 0, giving up persistent attempts for the later sends too
PersistentExhausted_GivesUp ==
    /\ pc = "persistent"
    /\ retry >= _max_retry
    /\ pc' = "nonpersistent"
    /\ log' = Append(log, Op("raise timeout", NoHandle))
    /\ _max_retry' = 0
    /\ UNCHANGED <<username, password, useragent, host, port, endpoint,
                   mail_url, _raise_errors, proxies, _server, retry, message,
                   values, data, conns, outcome, resolved, sends, healthy>>
    /\ twin' = Twin_step(twin, Raw("ok", 0, ""))

\* the loop ran _max_retry times: raise timeout, which _make_request ignores
PersistentExhausted ==
    /\ pc = "persistent"
    /\ retry >= _max_retry
    /\ pc' = "nonpersistent"
    /\ log' = Append(log, Op("raise timeout", NoHandle))
    /\ UNCHANGED <<config, _server, retry, message, values, data, conns,
                   outcome, resolved, sends, healthy>>
    /\ twin' = Twin_step(twin, Raw("ok", 0, ""))

\* _make_nonpersistent_request and the wrapper's handling of its result
NonPersistent ==
    /\ pc = "nonpersistent"
    /\ values' = _build_body(message)
    /\ data' = urlencode(values')
    /\ \E raw \in UrlopenResults :
        /\ log' = Append(log, Entry("urlopen", NoHandle, raw.kind,
                                    Authorization, data', raw.code, raw.body))
        /\ outcome' = Classify(raw)
        /\ healthy' = (healthy /\ raw.kind \in {"ok", "HTTPError"})
        /\ twin' = Twin_step(twin, raw)
    /\ resolved' = resolved + 1
    /\ pc' = "idle"
    /\ UNCHANGED <<config, _server, retry, message, conns, sends>>

Next ==
    \/ \E m \in Messages : send(m)
    \/ PersistentRequest
    \/ PersistentResponse
    \/ PersistentExhausted
    \/ NonPersistent

Spec == Init /\ [][Next]_vars

\* the next step of a running send
Step ==
    \/ PersistentRequest
    \/ PersistentResponse
    \/ PersistentExhausted
    \/ NonPersistent

\* send is synchronous and every transport call returns or fails, so a
\* running send takes its next step
FairSpec == Spec /\ WF_vars(Step)

TypeOK ==
    /\ pc \in {"idle", "persistent", "response", "nonpersistent"}
    /\ retry \in 0.._max_retry
    /\ _server \in 0..Len(conns)
    /\ sends \in 0..MaxSends
    /\ resolved \in 0..1
    /\ healthy \in BOOLEAN
    /\ twin.pc \in {"idle", "persistent", "response", "nonpersistent"}

(***************************************************************************)
(* _build_body on its own, over every message and credential               *)
(***************************************************************************)
BodyInit ==
    /\ \E c \in Credentials : username = c[1] /\ password = c[2]
    /\ useragent = "sendgrid/version;python"
    /\ host = "https://api.sendgrid.com"
    /\ port = "443"
    /\ endpoint = "/api/mail.send.json"
    /\ mail_url = host \o ":" \o port \o endpoint
    /\ _raise_errors = FALSE
    /\ proxies = None
    /\ _server = NoHandle
    /\ _max_retry = 3
    /\ pc = "build"
    /\ retry = 0
    /\ message \in AllMessages
    /\ values = <<>>
    /\ data = NoData
    /\ conns = <<>>
    /\ log = <<>>
    /\ outcome = NoOutcome
    /\ resolved = 0
    /\ sends = 0
    /\ healthy = TRUE
    /\ twin = TwinInit

BuildBody ==
    /\ pc = "build"
    /\ values' = _build_body(message)
    /\ data' = urlencode(values')
    /\ pc' = "built"
    /\ UNCHANGED <<config, _server, retry, message, conns, log, outcome,
                   resolved, sends, healthy, twin>>

BodySpec == BodyInit /\ [][BuildBody]_vars

(***************************************************************************)
(* Reading the log of a send                                               *)
(***************************************************************************)
Count(o) == Cardinality({i \in 1..Len(log) : log[i].op = o})

CountResult(o, r) ==
    Cardinality({i \in 1..Len(log) : log[i].op = o /\ log[i].result = r})

Last == log[Len(log)]

\* the send has ended
Ended == pc = "idle" /\ sends > 0

\* the last exchange of the send was answered with an HTTP status and body
Answered ==
    /\ Len(log) > 0
    /\ Last.op \in {"getresponse", "urlopen"}
    /\ Last.result \in {"ok", "HTTPError"}

NoProxy == ~Truthy(proxies)

(***************************************************************************)
(* Claims                                                                  *)
(***************************************************************************)

\* C1: in raising mode, a send answered with status s and body b raises
\* SendGridClientError(s, b) when 400 <= s < 500 and SendGridServerError(s, b)
\* when 500 <= s < 600, on the persistent and on the non-persistent path.
C1_RaisingModeRaisesOnErrorStatus ==
    (Ended /\ _raise_errors /\ Answered) =>
        /\ (400 <= Last.code /\ Last.code < 500) =>
              outcome = Outcome("SendGridClientError", Last.code, Last.body)
        /\ (500 <= Last.code /\ Last.code < 600) =>
              outcome = Outcome("SendGridServerError", Last.code, Last.body)

\* C2: in tuple mode, a send answered with status s and body b returns
\* exactly (s, b), whichever path carried the exchange.
C2_TupleModeReturnsStatusAndBody ==
    (Ended /\ ~_raise_errors /\ Answered) =>
        outcome = Outcome("returned", Last.code, Last.body)

C2_Witness ==
    /\ Ended /\ ~_raise_errors /\ Answered
    /\ Last.op = "urlopen" /\ Last.code = 599 /\ Last.body = "body2"
    /\ Count("getresponse") = 3
    /\ outcome = Outcome("returned", 599, "body2")

\* C3: in tuple mode send never raises: whatever the transport does, the
\* send ends by returning a (code, body) pair.
C3_TupleModeNeverRaises ==
    (Ended /\ ~_raise_errors) => outcome.kind = "returned"

\* every persistent attempt of the send ended in a malformed status line
AllAttemptsMalformed ==
    /\ Count("request") > 0
    /\ CountResult("request", "ok") = Count("request")
    /\ CountResult("getresponse", "BadStatusLine") = Count("request")

\* C4: without a proxy, when every persistent attempt ends in a malformed
\* status line there are exactly max_retry persistent attempts followed by
\* exactly one non-persistent request; when that one times out, tuple mode
\* returns (408, timeout object) and raising mode raises
\* SendGridClientError(408, 'Request timeout').
C4_ExhaustionThenOneFallback ==
    (Ended /\ NoProxy /\ AllAttemptsMalformed) =>
        /\ Count("request") = _max_retry
        /\ Count("urlopen") = 1
        /\ Last.op = "urlopen"
        /\ Last.result = "timeout" =>
              outcome = IF _raise_errors
                        THEN Outcome("SendGridClientError", 408,
                                     "Request timeout")
                        ELSE Outcome("returned", 408, "timeout object")

C4_Witness ==
    /\ Ended /\ NoProxy /\ AllAttemptsMalformed
    /\ Last.op = "urlopen" /\ Last.result = "timeout"
    /\ _raise_errors
    /\ outcome = Outcome("SendGridClientError", 408, "Request timeout")

PersistentOps == {"open", "request", "getresponse", "close", "raise timeout"}

\* C5: with a proxy configured no send uses persistent mode: no connection
\* is opened, no request is issued on a handle, _server stays None, and
\* every send issues exactly one non-persistent request.
C5_ProxyNeverPersistent ==
    Truthy(proxies) =>
        /\ _server = NoHandle
        /\ conns = <<>>
        /\ \A i \in 1..Len(log) : log[i].op \notin PersistentOps
        /\ Ended => Count("urlopen") = 1

C5_Witness ==
    /\ Truthy(proxies) /\ Ended /\ sends = 2
    /\ Count("urlopen") = 1 /\ _server = NoHandle

\* C6: every send terminates with exactly one outcome: it makes a bounded
\* number of transport requests, has no outcome while it runs and one
\* returned pair or one raised error when it has ended, and a running send
\* always ends.
C6_EverySendResolvesOnce ==
    /\ [](Count("request") + Count("urlopen") <= _max_retry + 1)
    /\ [](pc # "idle" => (resolved = 0 /\ outcome = NoOutcome))
    /\ [](Ended => (resolved = 1 /\ outcome # NoOutcome))
    /\ (pc # "idle") ~> (pc = "idle" /\ resolved = 1)

C6_Witness ==
    /\ Ended /\ resolved = 1 /\ outcome.kind = "propagated"
    /\ Count("request") = 3

\* C7: an API-key client sends 'Authorization: Bearer <apikey>' and a field
\* map without api_user and api_key; a username/password client sends a
\* field map with both api_user and api_key and no Authorization header, for
\* every username and password and on both paths.
C7_CredentialsTravelByMode ==
    \A i \in 1..Len(log) :
        log[i].op \in {"request", "urlopen"} =>
            IF username = None
            THEN /\ log[i].auth = Concat(Str("Bearer "), password)
                 /\ "api_user" \notin Keys(values)
                 /\ "api_key" \notin Keys(values)
            ELSE /\ log[i].auth = None
                 /\ "api_user" \in Keys(values)
                 /\ "api_key" \in Keys(values)

\* C8: no key of the field map built by _build_body has a falsy value: the
\* optional keys are present only when the message's field is non-empty and
\* files[<name>] / content[<id>] only when that content is non-empty.
C8_NoFalsyValueInFieldMap ==
    pc = "built" =>
        /\ \A i \in 1..Len(values) : Truthy(values[i][2])
        /\ "cc[]" \in Keys(values) => Truthy(message.cc)
        /\ "bcc[]" \in Keys(values) => Truthy(message.bcc)
        /\ "toname[]" \in Keys(values) => Truthy(message.to_name)
        /\ "headers" \in Keys(values) => Truthy(message.headers)
        /\ "date" \in Keys(values) => Truthy(message.date)
        /\ "replyto" \in Keys(values) => Truthy(message.reply_to)
        /\ "text" \in Keys(values) => Truthy(message.text)
        /\ "html" \in Keys(values) => Truthy(message.html)
        /\ \A f \in Range(FileNames) :
              FileKey(f) \in Keys(values) =>
                  (f \in DOMAIN message.files /\ Truthy(message.files[f]))
        /\ \A c \in Range(ContentIds) :
              ContentKey(c) \in Keys(values) =>
                  (c \in DOMAIN message.content
                   /\ Truthy(message.content[c]))

C8_Witness ==
    /\ pc = "built"
    /\ message.cc = List(<<>>) /\ message.date = None
    /\ message.text = Str("text")
    /\ "a.txt" \in DOMAIN message.files /\ ~Truthy(message.files["a.txt"])
    /\ "cid" \in DOMAIN message.content /\ Truthy(message.content["cid"])
    /\ Keys(values) \cap {"cc[]", "date", "text", FileKey("a.txt"),
                           ContentKey("cid")}
          = {"text", ContentKey("cid")}

\* C9: without a proxy, when the first k < max_retry persistent attempts end
\* in a malformed status line and attempt k+1 is answered with (status, body),
\* send yields that (status, body) after exactly k+1 requests and makes no
\* non-persistent request.
C9_RetryThenSuccessStaysPersistent ==
    (NoProxy /\ Answered /\ Last.op = "getresponse"
        /\ CountResult("getresponse", "BadStatusLine")
              = Count("getresponse") - 1) =>
        /\ Ended
        /\ Count("getresponse") <= _max_retry
        /\ Count("request") = Count("getresponse")
        /\ Count("urlopen") = 0
        /\ outcome = Outcome("returned", Last.code, Last.body)

C9_Witness ==
    /\ Ended /\ NoProxy /\ Answered /\ Last.op = "getresponse"
    /\ CountResult("getresponse", "BadStatusLine") = 2
    /\ Count("request") = 3 /\ Count("urlopen") = 0
    /\ outcome = Outcome("returned", 200, "body1")

\* C10: a send issues at most max_retry requests on persistent connections
\* and at most one non-persistent request, and nothing follows the
\* non-persistent request: it is not retried and persistent mode is not
\* entered again.
C10_BoundedRequestsPerSend ==
    /\ Count("request") <= _max_retry
    /\ Count("urlopen") <= 1
    /\ \A i \in 1..Len(log) : log[i].op = "urlopen" => i = Len(log)
    /\ \A i \in 1..Len(log) : log[i].op = "urlopen" => pc = "idle"

C10_Witness ==
    /\ Ended /\ Count("request") = 3 /\ Count("urlopen") = 1
    /\ Count("open") = 3

\* C11: at most one persistent connection is live: every handle other than
\* the stored one is closed, so a connection is opened only while _server is
\* None; a handle that produced a malformed status line is closed and dropped
\* at once, is never used again, and what follows is a fresh connection.
C11_OneLiveConnection ==
    /\ \A h \in 1..Len(conns) : (conns[h] # "closed") <=> (h = _server)
    /\ \A i \in 1..Len(log) :
          (log[i].op = "getresponse" /\ log[i].result = "BadStatusLine") =>
              /\ conns[log[i].handle] = "closed"
              /\ i < Len(log)
              /\ log[i + 1].op = "close"
              /\ log[i + 1].handle = log[i].handle
              /\ \A j \in (i + 2)..Len(log) : log[j].handle # log[i].handle
              /\ i + 2 <= Len(log) =>
                    \/ log[i + 2].op = "raise timeout"
                    \/ /\ log[i + 2].op = "open"
                       /\ log[i + 2].handle > log[i].handle

C11_Witness ==
    /\ Ended
    /\ conns = <<"closed", "closed", "idle">>
    /\ _server = 3
    /\ CountResult("getresponse", "BadStatusLine") = 2

\* C12: requests and responses on a persistent handle are strictly
\* interleaved: no request is issued on a stored handle that still has a
\* request whose response was not read.
C12_RequestOnlyOnIdleHandle ==
    [][(/\ pc = "persistent"
        /\ Len(log') > Len(log)
        /\ log'[Len(log')].op = "request"
        /\ _server # NoHandle) => conns[_server] # "pending"]_vars

\* C13: without a proxy and while every exchange has completed, the sends
\* made so far opened one persistent connection in all (the first send opens
\* it, every later one finds the handle and skips the opening), and each
\* send issues exactly one request, on that connection, carrying the body
\* built from its own message, and ends with the status and body of its own
\* response.
C13_HealthySendsShareOneConnection ==
    (NoProxy /\ healthy /\ sends >= 1) =>
        /\ Len(conns) <= 1
        /\ Count("request") <= 1
        /\ Count("urlopen") = 0
        /\ \A i \in 1..Len(log) :
              log[i].op = "request" =>
                  /\ log[i].handle = 1
                  /\ log[i].data = urlencode(_build_body(message))
        /\ Ended =>
              /\ Len(conns) = 1
              /\ _server = 1
              /\ conns[1] = "idle"
              /\ Count("open") = (IF sends = 1 THEN 1 ELSE 0)
              /\ Count("request") = 1
              /\ Len(log) = Count("open") + 2
              /\ Last.op = "getresponse"
              /\ values = _build_body(message)
              /\ outcome = Outcome("returned", Last.code, Last.body)

C13_Witness ==
    /\ Ended
    /\ NoProxy
    /\ healthy
    /\ sends = 2
    /\ message = FullMessage
    /\ Len(conns) = 1
    /\ Count("open") = 0
    /\ Count("request") = 1
    /\ outcome = Outcome("returned", 200, "body2")

\* the running / last send met a timeout in persistent mode: the retry loop
\* was exhausted, or request() / getresponse() timed out
PersistentTimeout ==
    \E i \in 1..Len(log) :
        \/ log[i].op = "raise timeout"
        \/ log[i].op \in {"request", "getresponse"} /\ log[i].result = "timeout"

\* the outcome of send for a timeout: (408, timeout object), or
\* SendGridClientError(408, 'Request timeout')
TimeoutOutcome == Classify(Raw("timeout", 0, ""))

\* C14: without a proxy, a timeout raised in persistent mode does not end
\* the send: the send goes on to exactly one non-persistent attempt, which
\* is its last operation; the outcome is the timeout outcome exactly when
\* that attempt timed out, and it is the returned (status, body) of the
\* attempt when urlopen answered.
C14_PersistentTimeoutNeverSurfaces ==
    (NoProxy /\ PersistentTimeout) =>
        /\ pc \in {"nonpersistent", "idle"}
        /\ pc = "nonpersistent" =>
              /\ Count("urlopen") = 0
              /\ outcome = NoOutcome
        /\ pc = "idle" =>
              /\ Count("urlopen") = 1
              /\ Last.op = "urlopen"
              /\ Len(log) >= 2
              /\ \/ log[Len(log) - 1].op = "raise timeout"
                 \/ log[Len(log) - 1].result = "timeout"
              /\ (outcome = TimeoutOutcome) <=> (Last.result = "timeout")
              /\ Last.result = "ok" =>
                    outcome = Outcome("returned", Last.code, Last.body)
              /\ (Last.result = "HTTPError" /\ ~_raise_errors) =>
                    outcome = Outcome("returned", Last.code, Last.body)

C14_Witness ==
    /\ Ended
    /\ NoProxy
    /\ _raise_errors
    /\ Count("getresponse") = 1
    /\ CountResult("getresponse", "timeout") = 1
    /\ Last.op = "urlopen"
    /\ Last.result = "ok"
    /\ outcome = Outcome("returned", 200, "body1")

\* a timeout occurred somewhere in the running / last send
AnyTimeout ==
    PersistentTimeout \/ CountResult("urlopen", "timeout") > 0

\* C15: in tuple mode, a send in which a timeout occurred, in a persistent
\* attempt or in the non-persistent attempt, returns (408, timeout object).
C15_AnyTimeoutReturns408 ==
    (Ended /\ ~_raise_errors /\ AnyTimeout) =>
        outcome = Outcome("returned", 408, "timeout object")

\* C15, amended: in tuple mode a send returns (408, timeout object) exactly
\* when its non-persistent attempt timed out; a timeout in a persistent
\* attempt is followed by the non-persistent attempt, whose result alone
\* decides what the send returns.
C15_FinalTimeoutReturns408 ==
    (Ended /\ ~_raise_errors) =>
        /\ Len(log) > 0
        /\ (outcome = Outcome("returned", 408, "timeout object"))
              <=> (Last.op = "urlopen" /\ Last.result = "timeout")
        /\ PersistentTimeout =>
              /\ Last.op = "urlopen"
              /\ outcome = _legacy_send(Raw(Last.result, Last.code, Last.body))

C15_Witness ==
    /\ Ended
    /\ ~_raise_errors
    /\ NoProxy
    /\ CountResult("request", "timeout") = 1
    /\ Last.op = "urlopen"
    /\ Last.result = "timeout"
    /\ outcome = Outcome("returned", 408, "timeout object")

\* C16: in either reporting mode, no transport failure other than an HTTP
\* error status or a final timeout reaches the caller of send: a failure of
\* request, getresponse or urlopen never propagates out of send.
C16_NoTransportFailureEscapes ==
    \A i \in 1..Len(log) :
        (log[i].op \in {"request", "getresponse", "urlopen"}
            /\ log[i].result = "error") => ~(Ended /\ outcome = Propagated)

\* C17: a failure of request() or getresponse() that is neither a malformed
\* status line nor a timeout ends the send at once: it is the last transport
\* operation of the send, the exception propagates, and there is no further
\* persistent attempt and no non-persistent request.
C17_OtherFailurePropagatesAtOnce ==
    \A i \in 1..Len(log) :
        (log[i].op \in {"request", "getresponse"} /\ log[i].result = "error") =>
            /\ i = Len(log)
            /\ pc = "idle"
            /\ resolved = 1
            /\ outcome = Propagated
            /\ Count("urlopen") = 0
            /\ Count("raise timeout") = 0

C17_Witness ==
    /\ Ended
    /\ NoProxy
    /\ retry = 1
    /\ CountResult("getresponse", "BadStatusLine") = 1
    /\ Last.op = "getresponse"
    /\ Last.result = "error"
    /\ outcome = Propagated

\* C18: in raising mode the assert False of _raising_send is never reached:
\* a send that ended on an HTTPError is classified as SendGridClientError or
\* SendGridServerError.
C18_AssertionNeverReached ==
    (Ended /\ _raise_errors) =>
        /\ outcome.kind # "AssertionError"
        /\ (Len(log) > 0 /\ Last.result = "HTTPError") =>
              outcome.kind \in {"SendGridClientError", "SendGridServerError"}

\* C19: no step of any send, successful, failing, retried or fallen back,
\* changes username, password, useragent, host, port, endpoint, mail_url,
\* proxies, the error-reporting mode or _max_retry; and the credential mode,
\* read from username, stays what it was.
C19_SendLeavesConfigurationUnchanged ==
    [][/\ config' = config
       /\ Authorization' = Authorization]_vars

\* two sends with retries and a fallback, after which the stored handle is
\* not the one of construction
C19_Witness ==
    /\ Ended
    /\ sends = 2
    /\ _server # NoHandle
    /\ Len(conns) >= 3
    /\ CountResult("getresponse", "BadStatusLine") = 1
    /\ CountResult("getresponse", "timeout") = 1
    /\ Last.op = "urlopen"

\* the transport operations of the running / last send: what was called, on
\* which handle, and how it ended
TransportOps ==
    [i \in 1..Len(log) |-> TwinOp(log[i].op, log[i].handle, log[i].result)]

\* the outcome of a tuple-mode send and of a raising-mode send are the same,
\* or the first returns as a pair the error the second raises
SameUpToReporting(returning, raising) ==
    \/ returning = raising
    \/ /\ returning.kind = "returned"
       /\ raising.kind \in {"SendGridClientError", "SendGridServerError",
                            "AssertionError"}
       /\ raising.kind # "AssertionError" => raising.code = returning.code

\* C20: two clients that differ only in raise_errors, given the same
\* messages and the same transport answers, are at the same point of their
\* send, have issued the same transport operations in it (opens, requests,
\* responses, discards, fallback), hold the same connection handle and have
\* the same connections in the same state; their outcomes differ only in an
\* error being returned as a pair by one and raised by the other.
C20_ReportingModeNotInTransport ==
    /\ twin.pc = pc
    /\ twin.retry = retry
    /\ twin.server = _server
    /\ twin.conns = conns
    /\ twin.ops = TransportOps
    /\ IF _raise_errors THEN SameUpToReporting(twin.outcome, outcome)
                        ELSE SameUpToReporting(outcome, twin.outcome)

C20_Witness ==
    /\ Ended
    /\ NoProxy
    /\ sends = 2
    /\ Count("close") = 2
    /\ CountResult("getresponse", "timeout") = 1
    /\ Last.op = "urlopen"
    /\ Last.result = "HTTPError"
    /\ twin.ops = TransportOps
    /\ twin.server = _server
    /\ _server # NoHandle
    /\ outcome.kind = "SendGridServerError"
    /\ twin.outcome = Outcome("returned", 500, "body1")
====
